---- MODULE Spec2Model ----
(***************************************************************************)
(* Model of drivers/iio/accel/mma8491.c: the sample acquisition protocol   *)
(* of the MMA8491Q accelerometer driver.  Contexts are the on-demand       *)
(* callers of mma8491_read_raw and the single trigger handler context of   *)
(* mma8491_trigger_handler.  Every bus transaction, every sleep, every     *)
(* change of the enable line and every lock operation is one step.         *)
(***************************************************************************)
EXTENDS Integers, Sequences, FiniteSets

VARIABLES
    pc,              \* position of each context in its function
    mask,            \* mma8491_read_raw: the query kind of the call
    tries,           \* mma8491_drdy: the local retry counter
    ret,             \* ret of mma8491_read's caller, at "done" the value
                     \* mma8491_read_raw returned
    buffer,          \* the six bytes of the burst read, wire order
    val,             \* *val of the on-demand caller: << >> until written
    chan,            \* chan->scan_index of the call: << >> until it is read
    lock,            \* data->lock: the set of its owners (empty: free)
    rst_gpio,        \* the enable line driven through data->rst_gpio
    buffer_enabled,  \* iio_buffer_enabled(indio_dev)
    nstatus,         \* observed: status reads issued in this acquisition
    nburst,          \* observed: block reads issued in this acquisition
    slept,           \* observed: time slept in msleep in this acquisition
    firstReady,      \* observed: first attempt at which the device answered
                     \*           with the three ready bits set (0: none yet)
    statErr,         \* observed: error the bus gave on a status read (0: none)
    burstRes,        \* observed: what the bus gave on the block read,
                     \*           << >> while none was issued
    pushed,          \* observed: records pushed for the current trigger event
    notified,        \* observed: iio_trigger_notify_done calls for the event
    record,          \* observed: the record pushed for the event (<< >>: none)
    probe,           \* mma8491_probe: its position, result and what it set up
    calibbias        \* observed: per axis, the calibration bias a caller last
                     \*           asked the channel to take

vars == << pc, mask, tries, ret, buffer, val, chan, lock, rst_gpio,
           buffer_enabled, nstatus, nburst, slept, firstReady, statErr,
           burstRes, pushed, notified, record, probe, calibbias >>

(* ------------------------------ constants ------------------------------ *)

EIO == 5
EBUSY == 16
EINVAL == 22
ENOMEM == 12
IIO_VAL_INT == 1

\* The queries the channels advertise (info_mask_separate, _shared_by_type).
Masks == { "IIO_CHAN_INFO_RAW", "IIO_CHAN_INFO_CALIBBIAS",
           "IIO_CHAN_INFO_SAMP_FREQ", "IIO_CHAN_INFO_SCALE" }
ScanIndex == 0 .. 2

DrdyTries_short == 150 - 1
DrdyTries == 150
MsleepMs == 20
MMA8491_OUT_X == 1
BurstLen_one_axis == 1 * 2
BurstLen == 3 * 2

BIT(n) == 2 ^ n

RECURSIVE BitAnd(_, _)
BitAnd(a, b) ==
    IF a = 0 \/ b = 0 THEN 0
    ELSE (a % 2) * (b % 2) + 2 * BitAnd(a \div 2, b \div 2)

RECURSIVE BitOr(_, _)
BitOr(a, b) ==
    IF a = 0 THEN b
    ELSE IF b = 0 THEN a
    ELSE (IF a % 2 = 1 \/ b % 2 = 1 THEN 1 ELSE 0) + 2 * BitOr(a \div 2, b \div 2)

MMA8491_STATUS_DRDY_noZ == BitOr(BIT(1), BIT(0))
MMA8491_STATUS_DRDY == BitOr(BitOr(BIT(2), BIT(1)), BIT(0))

(* ------------------------------ contexts ------------------------------- *)

NumReaders == 2
MaxPolls == 2
Readers == 1 .. NumReaders
Trig == NumReaders + 1
Ctx == Readers \cup {Trig}

\* What the bus layer can answer.  A status read gives a byte or a
\* negative errno; the block read gives the byte count or a negative errno.
BusErrors == { -EIO, -6, -110 }
StatusBytes == { 0, 1, 3, 5, 6, 7, 248, 251, 255 }
Bursts == { << 0, 4, 63, 252, 170, 170 >>,
            << 255, 252, 128, 0, 85, 85 >> }

(* ------------------------------ decoding ------------------------------- *)

be16_to_cpu_le(buf, idx) == buf[2 * idx + 2] * 256 + buf[2 * idx + 1]
be16_to_cpu(buf, idx) == buf[2 * idx + 1] * 256 + buf[2 * idx + 2]

\* sign_extend32(value, index): shift = 31 - index;
\* (s32)(value << shift) >> shift
sign_extend32(value, index) ==
    LET m == 2 ^ (index + 1)
        low == value % m
    IN  IF low >= m \div 2 THEN low - m ELSE low

Decode_shift4(buf, idx) == sign_extend32(be16_to_cpu(buf, idx) \div 16, 13)
Decode(buf, idx) == sign_extend32(be16_to_cpu(buf, idx) \div 4, 13)

(* ------------------------------- Init ---------------------------------- *)

\* mma8491_probe has returned 0: the enable line is requested and low, the
\* triggered buffer is set up, the device is registered.
Attached ==
    [ pc |-> "done", ret |-> 0, gpio |-> TRUE, buffer |-> TRUE,
      registered |-> TRUE, cleanups |-> 0, failed |-> "none", err |-> 0 ]

\* The contexts before any call, and nothing observed yet.
Quiet ==
    /\ pc = [c \in Ctx |-> "idle"]
    /\ mask = [c \in Ctx |-> "none"]
    /\ tries = [c \in Ctx |-> 0]
    /\ ret = [c \in Ctx |-> 0]
    /\ buffer = [c \in Ctx |-> << >>]
    /\ val = [c \in Ctx |-> << >>]
    /\ chan = [c \in Ctx |-> << >>]
    /\ lock = {}
    /\ buffer_enabled = FALSE
    /\ nstatus = [c \in Ctx |-> 0]
    /\ nburst = [c \in Ctx |-> 0]
    /\ slept = [c \in Ctx |-> 0]
    /\ firstReady = [c \in Ctx |-> 0]
    /\ statErr = [c \in Ctx |-> 0]
    /\ burstRes = [c \in Ctx |-> << >>]
    /\ pushed = 0
    /\ notified = 0
    /\ record = << >>
    /\ calibbias = [a \in ScanIndex |-> 0]

Init ==
    /\ Quiet
    /\ rst_gpio = 0
    /\ probe = Attached

locals == << mask, tries, ret, buffer, val, chan >>
observed == << nstatus, nburst, slept, firstReady, statErr, burstRes >>
event == << pushed, notified, record >>
host == << probe, calibbias >>
shared == << lock, rst_gpio, buffer_enabled >>

(* --------------------------- mma8491_drdy ------------------------------ *)

\* The three "new data" bits of a status byte, read bit by bit.
StatusBit(b, k) == (b \div (2 ^ k)) % 2
AllAxesReady(b) == \A k \in 0 .. 2 : StatusBit(b, k) = 1

\* (ret & MMA8491_STATUS_DRDY) == MMA8491_STATUS_DRDY
DrdyReady(r) == BitAnd(r, MMA8491_STATUS_DRDY) = MMA8491_STATUS_DRDY

\* if (ret < 0) return ret;
DrdyErrorValue_eio(r) == -EIO
DrdyErrorValue(r) == r

\* Where a context goes when mma8491_read returns to its caller.
AfterRead(c) == IF c = Trig THEN "after_read" ELSE "unlock"

\* One pass of while (tries-- > 0): the test, and when it passes the
\* status read and what is decided on its answer; when it fails, the
\* timeout after the loop.  answers is what the bus can give this time.
drdy_pass(c, answers) ==
    /\ pc[c] = "poll"
    /\ tries' = [tries EXCEPT ![c] = @ - 1]
    /\ IF tries[c] > 0
       THEN \E r \in answers :
              /\ nstatus' = [nstatus EXCEPT ![c] = @ + 1]
              /\ firstReady' = [firstReady EXCEPT ![c] =
                     IF @ = 0 /\ r >= 0 /\ AllAxesReady(r)
                     THEN nstatus[c] + 1 ELSE @]
              /\ statErr' = [statErr EXCEPT ![c] = IF r < 0 THEN r ELSE @]
              /\ IF r < 0
                 THEN /\ ret' = [ret EXCEPT ![c] = DrdyErrorValue(r)]
                      /\ pc' = [pc EXCEPT ![c] = AfterRead(c)]
                 ELSE IF DrdyReady(r)
                 THEN /\ ret' = [ret EXCEPT ![c] = 0]
                      /\ pc' = [pc EXCEPT ![c] = "burst"]
                 ELSE /\ UNCHANGED ret
                      /\ pc' = [pc EXCEPT ![c] = "sleep"]
       ELSE /\ ret' = [ret EXCEPT ![c] = -EIO]
            /\ pc' = [pc EXCEPT ![c] = AfterRead(c)]
            /\ UNCHANGED << nstatus, firstReady, statErr >>
    /\ UNCHANGED << mask, buffer, val, chan, shared, nburst, slept,
                    burstRes, event, host >>

\* The pass against a device that may answer anything on every read.
drdy_loop(c) == drdy_pass(c, StatusBytes \cup BusErrors)

\* The pass against a device that is prompt: by its MaxPolls-th status
\* read of an acquisition it has its data ready, or the bus fails.
drdy_loop_prompt(c) ==
    drdy_pass(c, IF nstatus[c] + 1 < MaxPolls
                 THEN StatusBytes \cup BusErrors
                 ELSE { b \in StatusBytes : AllAxesReady(b) } \cup BusErrors)

\* The pass against a device that may answer anything for its first MaxPolls
\* status reads of an acquisition and is stuck not ready from then on, so
\* that the acquisition runs into the timeout.
drdy_loop_stuck(c) ==
    drdy_pass(c, IF nstatus[c] < MaxPolls
                 THEN StatusBytes \cup BusErrors
                 ELSE { b \in StatusBytes : ~ AllAxesReady(b) })

\* msleep(20)
drdy_msleep(c) ==
    /\ pc[c] = "sleep"
    /\ slept' = [slept EXCEPT ![c] = @ + MsleepMs]
    /\ pc' = [pc EXCEPT ![c] = "poll"]
    /\ UNCHANGED << locals, shared, nstatus, nburst, firstReady, statErr,
                    burstRes, event, host >>

(* --------------------------- mma8491_read ------------------------------ *)

\* i2c_smbus_read_i2c_block_data(client, MMA8491_OUT_X, 6, buf), reached
\* when mma8491_drdy returned 0.
read_block(c) ==
    /\ pc[c] = "burst"
    /\ nburst' = [nburst EXCEPT ![c] = @ + 1]
    /\ \/ \E e \in BusErrors :
            /\ ret' = [ret EXCEPT ![c] = e]
            /\ burstRes' = [burstRes EXCEPT ![c] =
                               << e, MMA8491_OUT_X, BurstLen >>]
            /\ UNCHANGED buffer
       \/ \E b \in Bursts :
            /\ ret' = [ret EXCEPT ![c] = BurstLen]
            /\ burstRes' = [burstRes EXCEPT ![c] =
                               << BurstLen, MMA8491_OUT_X, BurstLen >>]
            /\ buffer' = [buffer EXCEPT ![c] = b]
    /\ pc' = [pc EXCEPT ![c] = AfterRead(c)]
    /\ UNCHANGED << mask, tries, val, chan, shared, nstatus, slept,
                    firstReady, statErr, event, host >>

(* -------------------------- mma8491_read_raw --------------------------- *)

\* if (iio_buffer_enabled(indio_dev)) return -EBUSY;
BusyCheck_off == FALSE
BusyCheck == buffer_enabled

\* Entry: the switch on mask and, for IIO_CHAN_INFO_RAW, the busy check.
read_raw_entry(r) ==
    /\ pc[r] = "idle"
    /\ \E m \in Masks :
         /\ mask' = [mask EXCEPT ![r] = m]
         /\ IF m = "IIO_CHAN_INFO_RAW"
            THEN IF BusyCheck
                 THEN /\ ret' = [ret EXCEPT ![r] = -EBUSY]
                      /\ pc' = [pc EXCEPT ![r] = "done"]
                 ELSE /\ UNCHANGED ret
                      /\ pc' = [pc EXCEPT ![r] = "gpio_on"]
            ELSE /\ ret' = [ret EXCEPT ![r] = -EINVAL]
                 /\ pc' = [pc EXCEPT ![r] = "done"]
    /\ UNCHANGED << tries, buffer, val, chan, shared, observed, event,
                    host >>

\* gpio_set_value_cansleep(data->rst_gpio, 1);
gpio_set_on(r) ==
    /\ pc[r] = "gpio_on"
    /\ rst_gpio' = 1
    /\ pc' = [pc EXCEPT ![r] = "lock"]
    /\ UNCHANGED << locals, lock, buffer_enabled, observed, event, host >>

\* mutex_lock(&data->lock); then mma8491_read enters mma8491_drdy,
\* which sets tries = 150.
mutex_lock(r) ==
    /\ pc[r] = "lock"
    /\ lock = {}
    /\ lock' = {r}
    /\ tries' = [tries EXCEPT ![r] = DrdyTries]
    /\ pc' = [pc EXCEPT ![r] = "poll"]
    /\ UNCHANGED << mask, ret, buffer, val, chan, rst_gpio, buffer_enabled,
                    observed, event, host >>

\* mutex_unlock(&data->lock);
mutex_unlock_unless_error(r) ==
    /\ pc[r] = "unlock"
    /\ lock' = IF ret[r] < 0 THEN lock ELSE lock \ {r}
    /\ pc' = [pc EXCEPT ![r] = "gpio_off"]
    /\ UNCHANGED << locals, rst_gpio, buffer_enabled, observed, event,
                    host >>

mutex_unlock(r) ==
    /\ pc[r] = "unlock"
    /\ lock' = lock \ {r}
    /\ pc' = [pc EXCEPT ![r] = "gpio_off"]
    /\ UNCHANGED << locals, rst_gpio, buffer_enabled, observed, event,
                    host >>

\* gpio_set_value_cansleep(data->rst_gpio, 0);
gpio_set_off_skipped(r) ==
    /\ pc[r] = "gpio_off"
    /\ pc' = [pc EXCEPT ![r] = "ret"]
    /\ UNCHANGED << locals, shared, observed, event, host >>

gpio_set_off_unless_error(r) ==
    /\ pc[r] = "gpio_off"
    /\ rst_gpio' = IF ret[r] < 0 THEN rst_gpio ELSE 0
    /\ pc' = [pc EXCEPT ![r] = "ret"]
    /\ UNCHANGED << locals, lock, buffer_enabled, observed, event, host >>

gpio_set_off(r) ==
    /\ pc[r] = "gpio_off"
    /\ rst_gpio' = 0
    /\ pc' = [pc EXCEPT ![r] = "ret"]
    /\ UNCHANGED << locals, lock, buffer_enabled, observed, event, host >>

\* if (ret < 0) return ret;
\* *val = sign_extend32(be16_to_cpu(buffer[chan->scan_index]) >> 2, 13);
\* return IIO_VAL_INT;
\* chan is an input of the call that only this step reads.
read_raw_return_zeroes_val(r) ==
    /\ pc[r] = "ret"
    /\ IF ret[r] < 0
       THEN /\ val' = [val EXCEPT ![r] = << 0 >>]
            /\ UNCHANGED << ret, chan >>
       ELSE \E idx \in ScanIndex :
              /\ chan' = [chan EXCEPT ![r] = << idx >>]
              /\ val' = [val EXCEPT ![r] = << Decode(buffer[r], idx) >>]
              /\ ret' = [ret EXCEPT ![r] = IIO_VAL_INT]
    /\ pc' = [pc EXCEPT ![r] = "done"]
    /\ UNCHANGED << mask, tries, buffer, shared, observed, event, host >>

read_raw_return(r) ==
    /\ pc[r] = "ret"
    /\ IF ret[r] < 0
       THEN UNCHANGED << ret, val, chan >>
       ELSE \E idx \in ScanIndex :
              /\ chan' = [chan EXCEPT ![r] = << idx >>]
              /\ val' = [val EXCEPT ![r] = << Decode(buffer[r], idx) >>]
              /\ ret' = [ret EXCEPT ![r] = IIO_VAL_INT]
    /\ pc' = [pc EXCEPT ![r] = "done"]
    /\ UNCHANGED << mask, tries, buffer, shared, observed, event, host >>

\* The caller has the result; the context is free for the next call.
caller_return(r) ==
    /\ pc[r] = "done"
    /\ pc' = [pc EXCEPT ![r] = "idle"]
    /\ mask' = [mask EXCEPT ![r] = "none"]
    /\ tries' = [tries EXCEPT ![r] = 0]
    /\ ret' = [ret EXCEPT ![r] = 0]
    /\ buffer' = [buffer EXCEPT ![r] = << >>]
    /\ val' = [val EXCEPT ![r] = << >>]
    /\ chan' = [chan EXCEPT ![r] = << >>]
    /\ nstatus' = [nstatus EXCEPT ![r] = 0]
    /\ nburst' = [nburst EXCEPT ![r] = 0]
    /\ slept' = [slept EXCEPT ![r] = 0]
    /\ firstReady' = [firstReady EXCEPT ![r] = 0]
    /\ statErr' = [statErr EXCEPT ![r] = 0]
    /\ burstRes' = [burstRes EXCEPT ![r] = << >>]
    /\ UNCHANGED << shared, event, host >>

(* ----------------------- mma8491_trigger_handler ----------------------- *)

\* The trigger fires while the buffer is enabled: the handler starts and
\* calls mma8491_read, which enters mma8491_drdy.
trigger_handler_entry ==
    /\ pc[Trig] = "idle"
    /\ buffer_enabled
    /\ tries' = [tries EXCEPT ![Trig] = DrdyTries]
    /\ pc' = [pc EXCEPT ![Trig] = "poll"]
    /\ UNCHANGED << mask, ret, buffer, val, chan, shared, observed, event,
                    host >>

\* if (ret < 0) goto done;
PushAllowed_always(r) == TRUE
PushAllowed(r) == ~ (r < 0)

\* u8 buffer[16] is a local of the handler that nothing initialises: the block
\* read fills bytes 0..5, the timestamp goes into bytes 8..15, and bytes 6..7
\* keep whatever the stack held.
StackBytes == { << 0, 0 >>, << 255, 255 >> }
iio_get_time_ns == "now"

\* iio_push_to_buffers_with_timestamp(indio_dev, buffer, iio_get_time_ns());
\* the record is the handler's buffer as it stands: the six bytes of the block
\* read, the two bytes of padding, the timestamp.
trigger_handler_push ==
    /\ pc[Trig] = "after_read"
    /\ IF PushAllowed(ret[Trig])
       THEN /\ pushed' = pushed + 1
            /\ \E pad \in StackBytes :
                 record' = << buffer[Trig], pad, iio_get_time_ns >>
       ELSE UNCHANGED << pushed, record >>
    /\ pc' = [pc EXCEPT ![Trig] = "notify"]
    /\ UNCHANGED << locals, shared, observed, notified, host >>

\* done: iio_trigger_notify_done(indio_dev->trig); return IRQ_HANDLED;
trigger_handler_done ==
    /\ pc[Trig] = "notify"
    /\ notified' = notified + 1
    /\ pc' = [pc EXCEPT ![Trig] = "handled"]
    /\ UNCHANGED << locals, shared, observed, pushed, record, host >>

\* The handler has returned; the next trigger event can be taken.
trigger_handler_return ==
    /\ pc[Trig] = "handled"
    /\ pc' = [pc EXCEPT ![Trig] = "idle"]
    /\ tries' = [tries EXCEPT ![Trig] = 0]
    /\ ret' = [ret EXCEPT ![Trig] = 0]
    /\ buffer' = [buffer EXCEPT ![Trig] = << >>]
    /\ nstatus' = [nstatus EXCEPT ![Trig] = 0]
    /\ nburst' = [nburst EXCEPT ![Trig] = 0]
    /\ slept' = [slept EXCEPT ![Trig] = 0]
    /\ firstReady' = [firstReady EXCEPT ![Trig] = 0]
    /\ statErr' = [statErr EXCEPT ![Trig] = 0]
    /\ burstRes' = [burstRes EXCEPT ![Trig] = << >>]
    /\ pushed' = 0
    /\ notified' = 0
    /\ record' = << >>
    /\ UNCHANGED << mask, val, chan, shared, host >>

(* ------------------------- the host framework -------------------------- *)

\* Streaming mode is switched on by the host framework at any time.
EnableBuffer ==
    /\ ~ buffer_enabled
    /\ buffer_enabled' = TRUE
    /\ UNCHANGED << pc, locals, lock, rst_gpio, observed, event, host >>

\* Streaming mode is switched off once the handler is not running.
DisableBuffer ==
    /\ buffer_enabled
    /\ pc[Trig] = "idle"
    /\ buffer_enabled' = FALSE
    /\ UNCHANGED << pc, locals, lock, rst_gpio, observed, event, host >>

(* --------------------------- specifications ---------------------------- *)

\* The steps of an on-demand read other than the passes of the poll.
ReaderStep(r) ==
    \/ read_raw_entry(r)
    \/ gpio_set_on(r)
    \/ mutex_lock(r)
    \/ drdy_msleep(r)
    \/ read_block(r)
    \/ mutex_unlock(r)
    \/ gpio_set_off(r)
    \/ read_raw_return(r)
    \/ caller_return(r)

\* The steps of the trigger handler other than the passes of the poll.
TriggerStep ==
    \/ trigger_handler_entry
    \/ drdy_msleep(Trig)
    \/ read_block(Trig)
    \/ trigger_handler_push
    \/ trigger_handler_done
    \/ trigger_handler_return

\* Spec: every context runs concurrently with every other one, against a
\* prompt device.
Next ==
    \/ \E r \in Readers : ReaderStep(r)
    \/ TriggerStep
    \/ \E c \in Ctx : drdy_loop_prompt(c)
    \/ EnableBuffer
    \/ DisableBuffer

Spec == Init /\ [][Next]_vars

\* SpecSeq: one acquisition at a time (a context starts and runs only
\* while every other context is idle), against any device.
Alone(c) == \A d \in Ctx \ {c} : pc[d] = "idle"

NextSeq ==
    \/ \E r \in Readers : Alone(r) /\ ReaderStep(r)
    \/ Alone(Trig) /\ TriggerStep
    \/ \E c \in Ctx : Alone(c) /\ drdy_loop(c)
    \/ EnableBuffer
    \/ DisableBuffer

SpecSeq == Init /\ [][NextSeq]_vars

\* SpecSingle: on-demand reads come one at a time, and run concurrently
\* with the trigger handler and the host framework, against a prompt
\* device.
OnlyReader(r) == \A q \in Readers \ {r} : pc[q] = "idle"

NextSingle ==
    \/ \E r \in Readers : OnlyReader(r) /\ ReaderStep(r)
    \/ TriggerStep
    \/ \E r \in Readers : OnlyReader(r) /\ drdy_loop_prompt(r)
    \/ drdy_loop_prompt(Trig)
    \/ EnableBuffer
    \/ DisableBuffer

SpecSingle == Init /\ [][NextSingle]_vars

\* SpecFair: on-demand reads run concurrently with one another, against a
\* device that is ready or fails within MaxPolls status reads or stays not
\* ready until the timeout; the trigger handler runs between the reads.
\* The scheduler is fair: a read that can take its next step takes it in the
\* end, a read that waits for the lock gets it if the lock keeps becoming
\* free (the mutex queues its waiters), and the handler runs to its end.
NextFair ==
    \/ \E r \in Readers : pc[Trig] = "idle" /\ ReaderStep(r)
    \/ \E r \in Readers : pc[Trig] = "idle" /\ drdy_loop_stuck(r)
    \/ Alone(Trig) /\ TriggerStep
    \/ Alone(Trig) /\ drdy_loop_stuck(Trig)
    \/ EnableBuffer
    \/ DisableBuffer

\* The steps of a read after its entry, other than taking the lock.
ReaderRuns(r) ==
    \/ gpio_set_on(r)
    \/ drdy_loop_stuck(r)
    \/ drdy_msleep(r)
    \/ read_block(r)
    \/ mutex_unlock(r)
    \/ gpio_set_off(r)
    \/ read_raw_return(r)

\* The steps of the handler after its entry.
HandlerRuns ==
    \/ drdy_loop_stuck(Trig)
    \/ drdy_msleep(Trig)
    \/ read_block(Trig)
    \/ trigger_handler_push
    \/ trigger_handler_done

SpecFair ==
    /\ Init
    /\ [][NextFair]_vars
    /\ \A r \in Readers : WF_vars(ReaderRuns(r)) /\ SF_vars(mutex_lock(r))
    /\ WF_vars(HandlerRuns)

(* ------------------------- what a step does ---------------------------- *)

\* The step issues a status read, or a block read, in context c.
StatusReadBy(c) == nstatus'[c] = nstatus[c] + 1
BlockReadBy(c) == nburst'[c] = nburst[c] + 1
BusReadBy(c) == StatusReadBy(c) \/ BlockReadBy(c)

\* An on-demand read is between its power-on and its power-off.
Powered(r) ==
    pc[r] \in { "lock", "poll", "sleep", "burst", "unlock", "gpio_off" }

\* A context is inside its power/poll/read sequence: an on-demand read
\* from its power-on to its power-off, the trigger handler from its first
\* status read to the end of its burst read.
InFlight(c) ==
    IF c = Trig THEN pc[c] \in { "poll", "sleep", "burst" } ELSE Powered(c)

(* ------------------------------- claims -------------------------------- *)

\* C1: every status read and every burst read, of an on-demand read or of
\* the trigger handler, is issued while the enable line is asserted.
C1_ReadsOnlyWhenEnabled ==
    [][\A c \in Ctx : BusReadBy(c) => rst_gpio = 1]_vars

\* C2: at most one context is inside its power/poll/read sequence at any
\* time.
C2_OneSequenceInFlight ==
    \A c, d \in Ctx : c # d => ~ (InFlight(c) /\ InFlight(d))

\* C3: no on-demand read is between its power-on and its power-off while
\* streaming mode is active.
C3_ModesExclusive ==
    \A r \in Readers : Powered(r) => ~ buffer_enabled

\* C4: a raw read entered while streaming mode is active returns -EBUSY
\* in that step, with the enable line and the lock as they were and no
\* status read and no block read issued by the call.
C4_BusyImmediately ==
    /\ [][\A r \in Readers :
            (pc[r] = "idle" /\ mask'[r] = "IIO_CHAN_INFO_RAW" /\ buffer_enabled)
            => /\ pc'[r] = "done"
               /\ ret'[r] = -EBUSY
               /\ rst_gpio' = rst_gpio
               /\ lock' = lock
               /\ ~ BusReadBy(r)]_vars
    /\ [](\A r \in Readers :
            (pc[r] = "done" /\ ret[r] = -EBUSY)
            => nstatus[r] = 0 /\ nburst[r] = 0 /\ val[r] = << >>)

\* C4 witness: a raw read has returned -EBUSY under streaming mode while
\* the trigger handler is polling.
C4_Witness ==
    \E r \in Readers :
        /\ pc[r] = "done"
        /\ mask[r] = "IIO_CHAN_INFO_RAW"
        /\ ret[r] = -EBUSY
        /\ buffer_enabled
        /\ pc[Trig] = "sleep"

\* How an acquisition went, told from what the bus answered.
PollOk(c) == firstReady[c] # 0
PollBusError(c) == statErr[c] # 0
PollOver(c) == nstatus[c] > 0 /\ pc[c] \notin { "poll", "sleep" }
PollTimedOut(c) == PollOver(c) /\ ~ PollOk(c) /\ ~ PollBusError(c)
BurstOk(c) == burstRes[c] # << >> /\ burstRes[c][1] >= 0
BurstBusError(c) == burstRes[c] # << >> /\ burstRes[c][1] < 0

\* C5: when on-demand reads run one at a time, a read that passed the busy
\* check has the enable line asserted from its power-on through its last
\* bus read until its power-off, and deasserted when it returns, whether
\* it succeeded, met a bus error while polling, timed out, or met a bus
\* error on the burst read.
C5_PowerPaired ==
    \A r \in Readers :
        /\ Powered(r) /\ pc[r] # "gpio_off" => rst_gpio = 1
        /\ pc[r] \in { "ret", "done" } => rst_gpio = 0
        /\ pc[r] \in { "ret", "done" } /\ mask[r] = "IIO_CHAN_INFO_RAW"
              /\ ret[r] # -EBUSY
           => \/ PollBusError(r)
              \/ PollTimedOut(r)
              \/ PollOk(r) /\ BurstBusError(r)
              \/ PollOk(r) /\ BurstOk(r)

\* C5 witness: an on-demand read whose burst read met a bus error is
\* about to return, with the enable line deasserted.
C5_Witness ==
    \E r \in Readers :
        /\ pc[r] = "done"
        /\ PollOk(r) /\ BurstBusError(r)
        /\ ret[r] < 0
        /\ rst_gpio = 0

\* C6: the trigger handler issues its bus reads holding the device lock
\* and with the enable line asserted.
C6_HandlerLockedAndEnabled ==
    [][BusReadBy(Trig) => lock = {Trig} /\ rst_gpio = 1]_vars

\* C7: when the handler of a trigger event has finished, completion has
\* been notified exactly once, and one record has been pushed if the poll
\* and the burst read both succeeded and none if not; never are there
\* two pushes or two notifications for an event.
C7_NotifyOncePushIffOk ==
    /\ pushed <= 1
    /\ notified <= 1
    /\ pc[Trig] \in { "idle", "poll", "sleep", "burst", "after_read" }
       => pushed = 0 /\ notified = 0
    /\ pc[Trig] \in { "notify", "handled" }
       => pushed = (IF PollOk(Trig) /\ BurstOk(Trig) THEN 1 ELSE 0)
    /\ pc[Trig] = "notify" => notified = 0
    /\ pc[Trig] = "handled" => notified = 1

\* C7 witness: an event whose burst read met a bus error is handled:
\* nothing pushed, completion notified.
C7_Witness ==
    /\ pc[Trig] = "handled"
    /\ PollOk(Trig) /\ BurstBusError(Trig)
    /\ pushed = 0
    /\ notified = 1

\* C8: the poll succeeds exactly at the first attempt, among the first
\* 150, whose status byte has bits 0, 1 and 2 all set: it has then issued
\* that many status reads, issues none afterwards, and goes on to the
\* burst read with result 0; no other status byte makes it succeed.
C8_SuccessAtFirstReady ==
    \A c \in Ctx :
        /\ PollOk(c) => /\ nstatus[c] = firstReady[c]
                        /\ firstReady[c] <= 150
                        /\ pc[c] \notin { "poll", "sleep" }
                        /\ ~ PollBusError(c)
        /\ PollOk(c) /\ nburst[c] = 0 => pc[c] = "burst"
        /\ pc[c] = "burst" => PollOk(c) /\ ret[c] = 0
        /\ nburst[c] > 0 => PollOk(c)

\* C8 witness: the device is ready at the 150th attempt and the poll has
\* succeeded.
C8_Witness ==
    \E c \in Ctx : pc[c] = "burst" /\ firstReady[c] = 150 /\ nstatus[c] = 150

\* C9: when the three ready bits are never set together and the bus never
\* fails, the poll issues exactly 150 status reads, one 20-unit sleep
\* before each read but the first, then fails with -EIO, and no burst read
\* is issued.
C9_TimeoutAfter150 ==
    \A c \in Ctx :
        /\ pc[c] = "poll" => slept[c] = 20 * nstatus[c]
        /\ pc[c] = "sleep" => slept[c] = 20 * (nstatus[c] - 1)
        /\ nstatus[c] <= 150
        /\ PollTimedOut(c) => /\ nstatus[c] = 150
                              /\ ret[c] = -EIO
                              /\ nburst[c] = 0
                              /\ pc[c] # "burst"

\* C9 witness: an on-demand read has returned after a poll that timed out.
C9_Witness ==
    \E r \in Readers :
        pc[r] = "done" /\ PollTimedOut(r) /\ nstatus[r] = 150 /\ ret[r] = -EIO

\* C10: after a bus error on a status read the poll is over: no status
\* read, no sleep and no burst read follow, and the on-demand caller gets
\* that error value; a bus error of the burst read reaches the on-demand
\* caller unchanged as well.
C10_BusErrorPropagates ==
    /\ [](\A c \in Ctx :
            PollBusError(c) => /\ pc[c] \notin { "poll", "sleep", "burst" }
                               /\ nburst[c] = 0
                               /\ slept[c] = 20 * (nstatus[c] - 1)
                               /\ ret[c] = statErr[c])
    /\ [](\A r \in Readers :
            BurstBusError(r) => ret[r] = burstRes[r][1])
    /\ [][\A c \in Ctx :
            PollBusError(c) => ~ BusReadBy(c) /\ slept'[c] <= slept[c]]_vars

\* C10 witness: an on-demand read has returned the bus error its third
\* status read met.
C10_Witness ==
    \E r \in Readers :
        /\ pc[r] = "done"
        /\ nstatus[r] = 3
        /\ statErr[r] = -110
        /\ ret[r] = -110

\* ---------------------------------------------------------------------
\* C11: in every acquisition the block read is issued only after the poller of
\* that same acquisition has returned success; an acquisition issues at most
\* one block read, a successful one exactly one, and that read asks for six
\* bytes starting at register 0x01; no status read follows the block read.
C11_OneBurstAfterReady ==
    /\ [] (\A c \in Ctx :
             /\ nburst[c] <= 1
             /\ (nburst[c] > 0) =>
                    /\ PollOk(c)
                    /\ nstatus[c] = firstReady[c]
                    /\ burstRes[c][2] = 1
                    /\ burstRes[c][3] = 6
             /\ BurstOk(c) => nburst[c] = 1)
    /\ [][\A c \in Ctx :
             /\ BlockReadBy(c) => PollOk(c) /\ nburst[c] = 0
             /\ StatusReadBy(c) => nburst[c] = 0]_vars

C11_Witness ==
    \E r \in Readers :
        /\ pc[r] = "done"
        /\ ret[r] = IIO_VAL_INT
        /\ nstatus[r] > 1
        /\ nburst[r] = 1
        /\ burstRes[r] = << 6, 1, 6 >>

(* ------------------- the decoder over every raw word ------------------- *)

\* The block read can put any six bytes into the buffer.  Words is every
\* 16-bit word an axis register pair can hold.  WireBuffers has every word,
\* most significant byte first as the device sends it, at one of the three
\* axes (the words are dealt out over the axes in turn), with each of two
\* fill words at the other two axes.
Words == 0 .. (2 ^ 16 - 1)
FillWords == { 0, 2 ^ 16 - 1 }
WireBytes(w) == << w \div 256, w % 256 >>
AxisOf(w) == w % 3
WireBuffers ==
    { WireBytes(IF AxisOf(wf[1]) = 0 THEN wf[1] ELSE wf[2])
        \o WireBytes(IF AxisOf(wf[1]) = 1 THEN wf[1] ELSE wf[2])
        \o WireBytes(IF AxisOf(wf[1]) = 2 THEN wf[1] ELSE wf[2]) :
      wf \in Words \X FillWords }

\* An on-demand read of reader 1 that found the data ready at its first
\* status read, read the block, released the lock and lowered the enable
\* line, and stands before line 79 with the block in its buffer.
InitDecode ==
    \E b \in WireBuffers :
        /\ pc = [c \in Ctx |-> IF c = 1 THEN "ret" ELSE "idle"]
        /\ mask = [c \in Ctx |-> IF c = 1 THEN "IIO_CHAN_INFO_RAW" ELSE "none"]
        /\ tries = [c \in Ctx |-> IF c = 1 THEN DrdyTries - 1 ELSE 0]
        /\ ret = [c \in Ctx |-> IF c = 1 THEN BurstLen ELSE 0]
        /\ buffer = [c \in Ctx |-> IF c = 1 THEN b ELSE << >>]
        /\ val = [c \in Ctx |-> << >>]
        /\ chan = [c \in Ctx |-> << >>]
        /\ lock = {}
        /\ rst_gpio = 0
        /\ buffer_enabled = FALSE
        /\ nstatus = [c \in Ctx |-> IF c = 1 THEN 1 ELSE 0]
        /\ nburst = [c \in Ctx |-> IF c = 1 THEN 1 ELSE 0]
        /\ slept = [c \in Ctx |-> 0]
        /\ firstReady = [c \in Ctx |-> IF c = 1 THEN 1 ELSE 0]
        /\ statErr = [c \in Ctx |-> 0]
        /\ burstRes = [c \in Ctx |->
               IF c = 1 THEN << BurstLen, MMA8491_OUT_X, BurstLen >> ELSE << >>]
        /\ pushed = 0
        /\ notified = 0
        /\ record = << >>
        /\ calibbias = [a \in ScanIndex |-> 0]
        /\ probe = Attached

\* From there the calls go on one at a time.
SpecDecode == InitDecode /\ [][NextSeq]_vars

\* The 16-bit word of an axis as the device sent it, and the signed value of
\* its 14-bit field: the field is the top 14 bits, bit 15 of the word its sign.
AxisWord(buf, axis) == buf[2 * axis + 1] * 256 + buf[2 * axis + 2]
Field14(w) == w \div 4
TwosComplement14(w) ==
    IF Field14(w) >= 2 ^ 13 THEN Field14(w) - 2 ^ 14 ELSE Field14(w)

\* An on-demand read of reader r has returned the value of an axis.
ReadDone(r) == pc[r] = "done" /\ ret[r] = IIO_VAL_INT /\ chan[r] # << >>
RawWord(r) == AxisWord(buffer[r], chan[r][1])

\* C12 as it is stated: the raw word 0x3FFC decodes to the minimum value of
\* the 14-bit field, -8192, and the raw word 0x0004 decodes to +1.
C12_MinAndPlusOne ==
    \A r \in Readers :
        ReadDone(r) =>
            /\ RawWord(r) = 16380 => val[r] = << -8192 >>
            /\ RawWord(r) = 4 => val[r] = << 1 >>

\* C12 (amended): the raw word 0x3FFC decodes to +4095, and the raw word
\* 0x0004 decodes to +1.
C12_Decode3FFC ==
    \A r \in Readers :
        ReadDone(r) =>
            /\ RawWord(r) = 16380 => val[r] = << 4095 >>
            /\ RawWord(r) = 4 => val[r] = << 1 >>

C12_Witness ==
    \E r \in Readers :
        /\ ReadDone(r)
        /\ RawWord(r) = 16380
        /\ val[r] = << 4095 >>

\* C13: for every 16-bit word w at the axis that was asked for, a successful
\* on-demand read returns the two's-complement value of the top 14 bits of w
\* (w shifted right by 2, sign-extended from 14 bits); the value lies in
\* -8192 .. 8191; it is the same for words that differ only in their two low
\* bits, and it is a function of that axis's word alone.
C13_Top14BitsSigned ==
    \A r \in Readers :
        ReadDone(r) =>
            /\ val[r] = << TwosComplement14(RawWord(r)) >>
            /\ val[r][1] \in -8192 .. 8191
            /\ val[r] = << TwosComplement14(RawWord(r) - (RawWord(r) % 4)) >>

C13_Witness ==
    \E r \in Readers :
        /\ ReadDone(r)
        /\ chan[r] = << 2 >>
        /\ RawWord(r) = 2 ^ 15 + 3
        /\ AxisWord(buffer[r], 0) = 2 ^ 16 - 1
        /\ val[r] = << -8192 >>

(* -------------------------- calibration bias --------------------------- *)

\* The channels advertise IIO_CHAN_INFO_CALIBBIAS (line 113), so a caller can
\* ask an axis to take a calibration bias.  mma8491_info (lines 133-136) has
\* .read_raw and nothing else: there is no write_raw to receive the request
\* and no field of struct mma8491_data to keep a bias in.  The request
\* changes nothing in the driver; calibbias records what was asked for.
BiasValues == { 0, 5 }

write_calibbias(a, b) ==
    /\ calibbias' = [calibbias EXCEPT ![a] = b]
    /\ UNCHANGED << pc, locals, shared, observed, event, probe >>

\* Calls one at a time, and bias requests between the calls.
NextBias ==
    \/ NextSeq
    \/ /\ \A c \in Ctx : pc[c] = "idle"
       /\ \E a \in ScanIndex, b \in BiasValues : write_calibbias(a, b)

SpecBias == Init /\ [][NextBias]_vars

\* C14: the value an on-demand read of an axis reports is the decoded value
\* plus the calibration bias of that channel: zero until a caller sets it,
\* and b for every read after a caller set it to b.
C14_BiasApplied ==
    \A r \in Readers :
        ReadDone(r) =>
            val[r] = << TwosComplement14(RawWord(r)) + calibbias[chan[r][1]] >>

(* -------------------------- the pushed record -------------------------- *)

\* How the channels declare the element a record holds for an axis
\* (scan_type, lines 117-123): 16 bits of storage, big-endian, the sample in
\* realbits = 12 signed bits after a right shift of shift = 4.
ScanRealBits == 12
ScanShift == 4
ScanValue(data, axis) ==
    sign_extend32(be16_to_cpu(data, axis) \div (2 ^ ScanShift),
                  ScanRealBits - 1)

\* The handler has pushed a record for the current trigger event.
RecordPushed == record # << >>

\* C15: for every successful trigger-fired acquisition the record pushed
\* carries, for each of the three axes, the decoded value, the one an
\* on-demand read of that axis returns for the same burst words, together
\* with a timestamp.  The record carries that value if its element for the
\* axis is the value, or reads as the value the way scan_type declares.
C15_RecordCarriesDecoded ==
    RecordPushed =>
        /\ \A a \in ScanIndex :
              \/ ScanValue(record[1], a) = Decode(record[1], a)
              \/ be16_to_cpu(record[1], a) = Decode(record[1], a)
        /\ record[3] = iio_get_time_ns

(* ----------------------------- termination ----------------------------- *)

\* C16: under fair scheduling every acquisition that was started ends,
\* whatever the device does: a started on-demand read reaches its return and
\* a started handler run its end; an acquisition issues at most 150 status
\* reads and at most one block read; a read that returns does not hold the
\* lock, and the step that takes a powered read on towards its return is its
\* power-off, taken with the lock released; so a read that waits for the
\* lock gets it.
C16_AcquisitionsTerminate ==
    /\ \A r \in Readers :
          (pc[r] \notin { "idle", "done" }) ~> (pc[r] = "done")
    /\ (pc[Trig] \notin { "idle", "handled" }) ~> (pc[Trig] = "handled")
    /\ \A r \in Readers : (pc[r] = "lock") ~> (lock = {r})
    /\ [] (\A c \in Ctx : nstatus[c] <= 150 /\ nburst[c] <= 1)
    /\ [] (\A r \in Readers :
             pc[r] \in { "gpio_off", "ret", "done", "idle" } => r \notin lock)
    /\ [][\A r \in Readers :
             /\ (Powered(r) /\ ~ Powered(r)') =>
                    /\ pc[r] = "gpio_off"
                    /\ pc'[r] = "ret"
                    /\ rst_gpio' = 0
                    /\ r \notin lock
             /\ (pc[r] # "done" /\ pc'[r] = "done") =>
                    pc[r] = "ret" \/ ~ (ret'[r] >= 0)]_vars

\* A read waits for the lock while another read, whose device never became
\* ready, holds it after 150 status reads.
C16_Witness ==
    \E r, q \in Readers :
        /\ pc[r] = "lock"
        /\ q \in lock
        /\ pc[q] = "unlock"
        /\ PollTimedOut(q)
        /\ nstatus[q] = 150

(* ------------------------ the lock and the line ------------------------ *)

\* The step writes the enable line in context r (line 74 or line 78).
GpioWriteBy(r) ==
    /\ pc[r] \in { "gpio_on", "gpio_off" }
    /\ pc'[r] # pc[r]

\* C17: the device lock covers the window from power-on to power-off: every
\* bus transaction and every write of the enable line is done by the context
\* that holds the lock, so that while one context holds it no other context
\* reads the bus or changes the line.
C17_LockCoversWindow ==
    [][/\ \A c \in Ctx : BusReadBy(c) => lock = {c}
       /\ \A r \in Readers : GpioWriteBy(r) => lock = {r}]_vars

(* ---------------------------- mma8491_probe ---------------------------- *)

\* What the host's services can fail with.
ProbeErrors == { -EBUSY, -EINVAL, -ENOMEM }

\* Before mma8491_probe: nothing is set up, and the enable line is at
\* whatever level the board left it.
Detached ==
    [ pc |-> "alloc", ret |-> 0, gpio |-> FALSE, buffer |-> FALSE,
      registered |-> FALSE, cleanups |-> 0, failed |-> "none", err |-> 0 ]

InitProbe ==
    /\ Quiet
    /\ rst_gpio \in { 0, 1 }
    /\ probe = Detached

\* indio_dev = devm_iio_device_alloc(..); if (!indio_dev) return -ENOMEM;
\* then the fields of data and indio_dev are filled in (lines 151-163).
probe_alloc ==
    /\ probe.pc = "alloc"
    /\ \/ probe' = [probe EXCEPT !.pc = "done", !.ret = -ENOMEM,
                                 !.failed = "alloc", !.err = -ENOMEM]
       \/ probe' = [probe EXCEPT !.pc = "gpio"]
    /\ UNCHANGED << pc, locals, shared, observed, event, calibbias >>

\* ret = devm_gpio_request_one(.., data->rst_gpio, GPIOF_OUT_INIT_LOW, ..);
\* if (ret) return ret;
probe_gpio_request ==
    /\ probe.pc = "gpio"
    /\ \/ /\ \E e \in ProbeErrors :
               probe' = [probe EXCEPT !.pc = "done", !.ret = e,
                                      !.failed = "gpio", !.err = e]
          /\ UNCHANGED rst_gpio
       \/ /\ probe' = [probe EXCEPT !.pc = "buffer", !.ret = 0, !.gpio = TRUE]
          /\ rst_gpio' = 0
    /\ UNCHANGED << pc, locals, lock, buffer_enabled, observed, event,
                    calibbias >>

\* ret = iio_triggered_buffer_setup(indio_dev, NULL,
\*                                  mma8491_trigger_handler, NULL);
\* if (ret < 0) return ret;
probe_buffer_setup ==
    /\ probe.pc = "buffer"
    /\ \/ \E e \in ProbeErrors :
            probe' = [probe EXCEPT !.pc = "done", !.ret = e,
                                   !.failed = "buffer", !.err = e]
       \/ probe' = [probe EXCEPT !.pc = "register", !.ret = 0,
                                 !.buffer = TRUE]
    /\ UNCHANGED << pc, locals, shared, observed, event, calibbias >>

\* ret = iio_device_register(indio_dev);
\* if (ret < 0) goto buffer_cleanup; return 0;
probe_register_no_cleanup ==
    /\ probe.pc = "register"
    /\ \/ \E e \in ProbeErrors :
            probe' = [probe EXCEPT !.pc = "done", !.ret = e,
                                   !.failed = "register", !.err = e]
       \/ probe' = [probe EXCEPT !.pc = "done", !.ret = 0,
                                 !.registered = TRUE]
    /\ UNCHANGED << pc, locals, shared, observed, event, calibbias >>

probe_register ==
    /\ probe.pc = "register"
    /\ \/ \E e \in ProbeErrors :
            probe' = [probe EXCEPT !.pc = "cleanup", !.ret = e,
                                   !.failed = "register", !.err = e]
       \/ probe' = [probe EXCEPT !.pc = "done", !.ret = 0,
                                 !.registered = TRUE]
    /\ UNCHANGED << pc, locals, shared, observed, event, calibbias >>

\* buffer_cleanup: iio_triggered_buffer_cleanup(indio_dev); return ret;
probe_buffer_cleanup ==
    /\ probe.pc = "cleanup"
    /\ probe' = [probe EXCEPT !.pc = "done", !.buffer = FALSE,
                              !.cleanups = @ + 1]
    /\ UNCHANGED << pc, locals, shared, observed, event, calibbias >>

\* SpecProbe: the attach, and after a successful attach the calls of the
\* driver one at a time.
NextProbe ==
    \/ probe_alloc
    \/ probe_gpio_request
    \/ probe_buffer_setup
    \/ probe_register
    \/ probe_buffer_cleanup
    \/ probe = Attached /\ NextSeq

SpecProbe == InitProbe /\ [][NextProbe]_vars

\* mma8491_probe has returned.
ProbeReturned == probe.pc = "done"

\* C18: at attach the enable line is requested as an output driven low; if
\* the request fails the attach returns that error with no triggered buffer
\* set up and no device registered; if the registration fails later the
\* triggered buffer is cleaned up before the attach returns the error.
C18_AttachOrder ==
    /\ [] /\ probe.pc \in { "buffer", "register", "cleanup" } =>
                probe.gpio /\ rst_gpio = 0
          /\ probe.buffer => probe.gpio
          /\ probe.registered => probe.buffer /\ probe.ret = 0
          /\ probe.failed = "gpio" =>
                /\ ProbeReturned
                /\ probe.ret = probe.err
                /\ probe.ret # 0
                /\ ~ probe.gpio
                /\ ~ probe.buffer
                /\ probe.cleanups = 0
                /\ ~ probe.registered
          /\ (probe.failed = "register" /\ ProbeReturned) =>
                /\ probe.ret = probe.err
                /\ probe.ret < 0
                /\ ~ probe.buffer
                /\ probe.cleanups = 1
                /\ ~ probe.registered
    /\ [][(probe.pc = "gpio" /\ probe'.gpio) => rst_gpio' = 0]_vars

\* The request drove the line low, the buffer was set up, the registration
\* failed: the attach returned its error with the buffer cleaned up.
C18_Witness ==
    /\ ProbeReturned
    /\ probe.failed = "register"
    /\ probe.ret = -EBUSY
    /\ probe.gpio
    /\ rst_gpio = 0
    /\ probe.cleanups = 1

(* ------------------------------ quiescence ----------------------------- *)

\* No on-demand read is between its entry and its return.
Quiescent == \A r \in Readers : pc[r] \in { "idle", "done" }

\* C19: in every quiescent state, after the attach and any number of
\* on-demand reads and trigger events, running concurrently, the enable line
\* is deasserted and the lock is free.
C19_QuiescentLowAndFree ==
    Quiescent => rst_gpio = 0 /\ lock = {}

\* Both reads have been through the powered window, one of them into a bus
\* error, while the handler pushed a record; both have returned.
C19_Witness ==
    /\ Quiescent
    /\ \E r, q \in Readers :
          /\ r # q
          /\ pc[r] = "done" /\ ret[r] = IIO_VAL_INT
          /\ pc[q] = "done" /\ PollBusError(q)
    /\ pushed = 1

(* ------------------------------ *val ----------------------------------- *)

\* The step is the entry of a query other than IIO_CHAN_INFO_RAW.
UnsupportedQueryBy(r) ==
    /\ pc[r] = "idle"
    /\ pc'[r] # "idle"
    /\ mask'[r] # "IIO_CHAN_INFO_RAW"

\* C20: an on-demand read that ends in an error (busy, bus error while
\* polling, timeout, bus error in the block read, unsupported query) leaves
\* *val unwritten; *val is written only on the success path, after the lock
\* was released and the enable line deasserted; an unsupported query returns
\* -EINVAL at once, with no bus read and the lock and the line untouched.
C20_ValOnlyOnSuccess ==
    /\ [] (\A r \in Readers :
             /\ (pc[r] = "done" /\ ret[r] < 0) => val[r] = << >>
             /\ (pc[r] = "done" /\ ret[r] >= 0) =>
                    /\ ret[r] = IIO_VAL_INT
                    /\ val[r] # << >>
             /\ val[r] # << >> =>
                    /\ pc[r] = "done"
                    /\ PollOk(r)
                    /\ BurstOk(r)
                    /\ r \notin lock
                    /\ rst_gpio = 0)
    /\ [][\A r \in Readers :
             /\ val'[r] # val[r] /\ val'[r] # << >> =>
                    /\ pc[r] = "ret"
                    /\ ret[r] >= 0
                    /\ lock = {}
                    /\ rst_gpio = 0
             /\ UnsupportedQueryBy(r) =>
                    /\ pc'[r] = "done"
                    /\ ret'[r] = -EINVAL
                    /\ val'[r] = << >>
                    /\ ~ BusReadBy(r)
                    /\ UNCHANGED << lock, rst_gpio >>]_vars

\* A read whose block read met a bus error has returned it, *val unwritten.
C20_Witness ==
    \E r \in Readers :
        /\ pc[r] = "done"
        /\ BurstBusError(r)
        /\ ret[r] = burstRes[r][1]
        /\ val[r] = << >>

====
